---- MODULE Spec2Model ----
(***************************************************************************)
(* Model of app.py: the quiz server's session store (SESSIONS), the two    *)
(* JSON routes GET /next (next_question) and POST /answer (handle_answer), *)
(* and the verdict classifier client (ask_groq).                           *)
(*                                                                         *)
(* Texts (answers, completions, verdicts) are sequences of tokens; a token *)
(* is one word, one blank or one emoji.  The emoji of the three labels are *)
(* written "(check)", "(blank)" and "(liar)".                              *)
(***************************************************************************)
EXTENDS Integers, Sequences, FiniteSets, TLC

\* SESSIONS:   the session store, a dictionary keyed by remote address
\* request:    the request handled last
\* response:   the response to it (status 500: an exception left the handler)
\* groq:       whether that request called the classifier, and how the call ended
\* groq_calls: per client, the number of classifier calls made for it so far
\* handlers:   per worker thread, where it is in handle_answer and its locals
\*             (all idle while requests are handled one at a time)
VARIABLES SESSIONS, request, groq, response, groq_calls, handlers

vars == <<SESSIONS, request, groq, response, groq_calls, handlers>>

(***************************************************************************)
(* Bounds.  The program asks 30 questions of a pool of 30; the model keeps  *)
(* the pool exactly as large as a session, as app.py does, and scales both *)
(* down.                                                                   *)
(***************************************************************************)
SESSION_QUESTIONS == 2

QUESTIONS == 1 .. SESSION_QUESTIONS

\* request.remote_addr of the clients that talk to the server: one client
\* alone (Spec), or two clients sharing the store (SpecClients)
OneClient == {"10.0.0.1"}

Clients == {"10.0.0.1", "10.0.0.2"}

\* worker threads of the HTTP runtime that may run handle_answer at once
Handlers == {"h1", "h2"}

(***************************************************************************)
(* Texts.                                                                  *)
(***************************************************************************)
IsSpace(c) == c = " "

RECURSIVE LStrip(_)
LStrip(s) == IF s = <<>> THEN s
             ELSE IF IsSpace(Head(s)) THEN LStrip(Tail(s)) ELSE s

RECURSIVE RStrip(_)
RStrip(s) == IF s = <<>> THEN s
             ELSE IF IsSpace(s[Len(s)]) THEN RStrip(SubSeq(s, 1, Len(s) - 1)) ELSE s

\* a handler that forgets the .strip()
StripNothing(s) == s

\* str.strip()
Strip(s) == RStrip(LStrip(s))

\* key in text (substring)
Contains(key, text) ==
    \E i \in 0 .. (Len(text) - Len(key)) : SubSeq(text, i + 1, i + Len(key)) = key

Truthful == <<"Truthful", " ", "(check)">>
Suspicious == <<"Suspicious", " ", "(blank)">>
Lying == <<"Lying", " ", "(liar)">>

\* the three keys of counts, and the list of the fallback's random.choice
Labels == {Truthful, Suspicious, Lying}

(***************************************************************************)
(* Inputs: the JSON body of a POST /answer and the outcome of the one      *)
(* outbound call of ask_groq.                                              *)
(***************************************************************************)
\* values of the "answer" field as the client may send them
AnswerTexts == { <<>>, <<" ", " ">>, <<" ", "yes", " ">> }

\* request bodies: not JSON at all, JSON that is no object, an object without
\* "answer", an object whose "answer" is no string, an object with a string
Bodies ==
    { [json |-> "invalid"], [json |-> "array"],
      [json |-> "object", answer |-> [type |-> "absent"]],
      [json |-> "object", answer |-> [type |-> "number"]] }
    \cup { [json |-> "object", answer |-> [type |-> "string", text |-> t]] :
             t \in AnswerTexts }

\* message contents the completion endpoint may send back
Completions ==
    { Truthful,
      <<" ">> \o Suspicious \o <<" ">>,
      Lying,
      <<"Truthful">>,
      Truthful \o <<" ", "or", " ">> \o Suspicious }

\* the ways requests.post / raise_for_status / res.json() / the indexing fail
Failures == {"network_error", "timeout", "http_error", "malformed"}

\* outcome of the outbound call; choice is what random.choice would draw
GroqOutcomes ==
    { [result |-> "ok", content |-> c] : c \in Completions }
    \cup { [result |-> f, choice |-> l] : f \in Failures, l \in Labels }

\* an except branch that returns the error's name instead of a label
ask_groq_error(outcome) ==
    IF outcome.result = "ok" THEN Strip(outcome.content) ELSE <<outcome.result>>

\* ask_groq: the stripped completion, or the fallback label on any exception
ask_groq(outcome) ==
    IF outcome.result = "ok" THEN Strip(outcome.content) ELSE outcome.choice

(***************************************************************************)
(* Session store.                                                          *)
(***************************************************************************)
\* a draw with replacement (random.choices)
SampleWithReplacement(pool, k) == [1 .. k -> pool]

\* random.sample(QUESTIONS, k): k distinct entries of the pool, in any order
Sample(pool, k) ==
    { s \in [1 .. k -> pool] : \A i, j \in 1 .. k : i # j => s[i] # s[j] }

NewSession(qs) == [questions |-> qs, answers |-> <<>>, index |-> 0]

\* an assignment that rebinds the whole store: SESSIONS = {c: sess}
StoreAlone(c, sess) == [x \in {c} |-> sess]

\* SESSIONS[c] = sess
Store(c, sess) ==
    [x \in (DOMAIN SESSIONS) \cup {c} |-> IF x = c THEN sess ELSE SESSIONS[x]]

\* a lookup that resamples on every GET /next
GetOrCreateAlways(session_id, selected_questions) ==
    Store(session_id, NewSession(selected_questions))

\* the store after "if session_id not in SESSIONS: SESSIONS[session_id] = {...}"
GetOrCreate(session_id, selected_questions) ==
    IF session_id \notin DOMAIN SESSIONS
    THEN Store(session_id, NewSession(selected_questions))
    ELSE SESSIONS

(***************************************************************************)
(* Final summary.                                                          *)
(***************************************************************************)
\* counts[key] after the two loops over session["answers"] and counts
Counts(answers) ==
    [key \in Labels |->
        Cardinality({ i \in 1 .. Len(answers) : Contains(key, answers[i].verdict) })]

\* sum(counts.values())
Total(counts) == counts[Truthful] + counts[Suspicious] + counts[Lying]

\* round(num / den * 100, 1), in tenths of a percent.  Python rounds the float
\* to the nearest tenth, an exact tie to the even one; 1000 * num / den is an
\* exact tie only when 16 divides den, which no total of the model reaches.
RoundPercent(num, den) ==
    LET q == (1000 * num) \div den
        r == (1000 * num) % den
    IN  IF 2 * r < den THEN q
        ELSE IF 2 * r > den THEN q + 1
        ELSE IF q % 2 = 0 THEN q ELSE q + 1

HonestyPercent(counts) ==
    IF Total(counts) > 0 THEN RoundPercent(counts[Truthful], Total(counts)) ELSE 0

Null == [null |-> TRUE]

Summary(answers) ==
    [null |-> FALSE, counts |-> Counts(answers),
     honesty_percent |-> HonestyPercent(Counts(answers))]

(***************************************************************************)
(* State.                                                                  *)
(***************************************************************************)
NoRequest == [op |-> "none"]
NoCall == [called |-> FALSE]
Idle == [pc |-> "idle"]

Init ==
    /\ SESSIONS = [x \in {} |-> NewSession(<<>>)]
    /\ request = NoRequest
    /\ groq = NoCall
    /\ response = [status |-> 0]
    /\ groq_calls = [c \in Clients |-> 0]
    /\ handlers = [h \in Handlers |-> Idle]

(***************************************************************************)
(* GET /next                                                               *)
(***************************************************************************)
\* a response that sends the 0-based cursor
NextResponseZeroBased(session) ==
    LET idx == session.index
    IN  IF idx >= Len(session.questions)
        THEN [status |-> 200, done |-> TRUE]
        ELSE [status |-> 200, question |-> session.questions[idx + 1],
              index |-> idx, total |-> Len(session.questions), done |-> FALSE]

NextResponse(session) ==
    LET idx == session.index
    IN  IF idx >= Len(session.questions)
        THEN [status |-> 200, done |-> TRUE]
        ELSE [status |-> 200, question |-> session.questions[idx + 1],
              index |-> idx + 1, total |-> Len(session.questions), done |-> FALSE]

next_question(session_id) ==
    /\ \E selected_questions \in Sample(QUESTIONS, SESSION_QUESTIONS) :
          SESSIONS' = GetOrCreate(session_id, selected_questions)
    /\ response' = NextResponse(SESSIONS'[session_id])
    /\ request' = [op |-> "next", client |-> session_id]
    /\ groq' = NoCall
    /\ UNCHANGED groq_calls

(***************************************************************************)
(* POST /answer                                                            *)
(***************************************************************************)
\* a lookup that wraps around instead of raising
ListGetWrapped(list, i) == <<list[(i % Len(list)) + 1]>>

\* a lookup made after the increment: list[i + 1]
ListGetAhead(list, i) == IF i + 1 < Len(list) THEN <<list[i + 2]>> ELSE <<>>

\* list[i] for i >= 0: <<the element>>, or <<>> for an IndexError
ListGet(list, i) == IF i < Len(list) THEN <<list[i + 1]>> ELSE <<>>

\* a handler that appends and forgets the increment
RecordNoIncrement(session, question, answer, verdict) ==
    [session EXCEPT
        !.answers = Append(@, [question |-> question, answer |-> answer,
                               verdict |-> verdict])]

\* the session after the append and the increment
Record(session, question, answer, verdict) ==
    [session EXCEPT
        !.answers = Append(@, [question |-> question, answer |-> answer,
                               verdict |-> verdict]),
        !.index = @ + 1]

\* a handler whose done test is off by one
AnswerResponseLate(session, verdict) ==
    LET done == session.index > Len(session.questions)
    IN  [status |-> 200, verdict |-> verdict, progress |-> session.index,
         done |-> done,
         summary |-> IF done THEN Summary(session.answers) ELSE Null]

AnswerResponse(session, verdict) ==
    LET done == session.index >= Len(session.questions)
    IN  [status |-> 200, verdict |-> verdict, progress |-> session.index,
         done |-> done,
         summary |-> IF done THEN Summary(session.answers) ELSE Null]

Error(code, message) == [status |-> code, error |-> message]

\* a return that forgets the status code
SessionNotStarted200 == Error(200, "Session not started")

SessionNotStarted == Error(400, "Session not started")

NoAnswerProvided == Error(400, "No answer provided!")

\* an exception that leaves the handler: Flask answers 400 for the BadRequest
\* of get_json(force=True) and 500 for every other exception
Fault(exception) ==
    IF exception = "BadRequest" THEN Error(400, exception) ELSE Error(500, exception)

\* a request that ends before the classifier is called
Reject(resp) ==
    /\ response' = resp
    /\ groq' = NoCall
    /\ UNCHANGED <<SESSIONS, groq_calls>>

handle_answer(session_id, body) ==
    /\ request' = [op |-> "answer", client |-> session_id, body |-> body]
    /\ IF session_id \notin DOMAIN SESSIONS
       THEN Reject(SessionNotStarted)
       ELSE IF body.json = "invalid"
       THEN Reject(Fault("BadRequest"))
       ELSE IF body.json # "object"
       THEN Reject(Fault("AttributeError"))
       ELSE IF body.answer.type = "number"
       THEN Reject(Fault("AttributeError"))
       ELSE LET session == SESSIONS[session_id]
                idx == session.index
                answer == IF body.answer.type = "absent" THEN <<>>
                          ELSE Strip(body.answer.text)
            IN  IF answer = <<>>
                THEN Reject(NoAnswerProvided)
                ELSE IF ListGet(session.questions, idx) = <<>>
                THEN Reject(Fault("IndexError"))
                ELSE \E outcome \in GroqOutcomes :
                        LET question == ListGet(session.questions, idx)[1]
                            verdict == ask_groq(outcome)
                            after == Record(session, question, answer, verdict)
                        IN  /\ SESSIONS' = Store(session_id, after)
                            /\ groq' = [called |-> TRUE, result |-> outcome.result]
                            /\ groq_calls' =
                                  [groq_calls EXCEPT ![session_id] = @ + 1]
                            /\ response' = AnswerResponse(after, verdict)

\* the server handles one request at a time, from any of the clients
Requests(clients) ==
    /\ \/ \E c \in clients : next_question(c)
       \/ \E c \in clients, body \in Bodies : handle_answer(c, body)
    /\ UNCHANGED handlers

Next == Requests(OneClient)

Spec == Init /\ [][Next]_vars

NextClients == Requests(Clients)

SpecClients == Init /\ [][NextClients]_vars

(***************************************************************************)
(* POST /answer on several threads at once.  A thread may be preempted     *)
(* between any two accesses of the shared session: after reading index     *)
(* (116), around the classifier call (124), after the append (126) and     *)
(* between the read and the write of "index += 1" (127).  GET /next stays  *)
(* one step.                                                               *)
(***************************************************************************)
\* the requests and classifier outcomes tried with threads: answers that are
\* strings, a completion that is a label and a call that times out and
\* falls back to the same label
RaceBodies == { b \in Bodies : b.json = "object" /\ b.answer.type = "string" }

RaceOutcomes ==
    { o \in GroqOutcomes :
        \/ o.result = "ok" /\ o.content = Truthful
        \/ o.result = "timeout" /\ o.choice = Truthful }

\* lines 111-123: the checks, the read of index and the question lookup
AnswerStart(h, session_id, body) ==
    /\ handlers[h].pc = "idle"
    /\ LET reject(resp) ==
               /\ request' = [op |-> "answer", client |-> session_id, body |-> body]
               /\ Reject(resp)
               /\ UNCHANGED handlers
       IN  IF session_id \notin DOMAIN SESSIONS
           THEN reject(SessionNotStarted)
           ELSE IF body.json = "invalid"
           THEN reject(Fault("BadRequest"))
           ELSE IF body.json # "object"
           THEN reject(Fault("AttributeError"))
           ELSE IF body.answer.type = "number"
           THEN reject(Fault("AttributeError"))
           ELSE LET session == SESSIONS[session_id]
                    idx == session.index
                    answer == IF body.answer.type = "absent" THEN <<>>
                              ELSE Strip(body.answer.text)
                IN  IF answer = <<>>
                    THEN reject(NoAnswerProvided)
                    ELSE IF ListGet(session.questions, idx) = <<>>
                    THEN reject(Fault("IndexError"))
                    ELSE /\ handlers' =
                              [handlers EXCEPT ![h] =
                                 [pc |-> "call", client |-> session_id,
                                  body |-> body, idx |-> idx, answer |-> answer,
                                  question |-> ListGet(session.questions, idx)[1]]]
                         /\ UNCHANGED <<SESSIONS, request, groq, response,
                                        groq_calls>>

\* line 124: the classifier call returns
AnswerCall(h) ==
    /\ handlers[h].pc = "call"
    /\ \E outcome \in RaceOutcomes :
          /\ handlers' =
                [handlers EXCEPT ![h] =
                   [pc |-> "append", client |-> @.client, body |-> @.body,
                    idx |-> @.idx, answer |-> @.answer, question |-> @.question,
                    verdict |-> ask_groq(outcome)]]
          /\ groq' = [called |-> TRUE, result |-> outcome.result]
    /\ groq_calls' = [groq_calls EXCEPT ![handlers[h].client] = @ + 1]
    /\ UNCHANGED <<SESSIONS, request, response>>

\* a thread that looks the question up again when it appends
AppendedCurrent(local, session) ==
    [question |-> IF session.index < Len(session.questions)
                  THEN session.questions[session.index + 1]
                  ELSE local.question,
     answer |-> local.answer, verdict |-> local.verdict]

\* the record a thread appends: the question it looked up when it started
Appended(local, session) ==
    [question |-> local.question, answer |-> local.answer,
     verdict |-> local.verdict]

\* line 126: session["answers"].append(...)
AnswerAppend(h) ==
    /\ handlers[h].pc = "append"
    /\ LET c == handlers[h].client
           session == SESSIONS[c]
       IN  SESSIONS' = Store(c, [session EXCEPT
                                   !.answers = Append(@, Appended(handlers[h], session))])
    /\ handlers' = [handlers EXCEPT ![h].pc = "load"]
    /\ UNCHANGED <<request, groq, response, groq_calls>>

\* line 127, first half: read session["index"]
AnswerLoad(h) ==
    /\ handlers[h].pc = "load"
    /\ handlers' =
          [handlers EXCEPT ![h] =
             [pc |-> "store", client |-> @.client, body |-> @.body,
              idx |-> @.idx, verdict |-> @.verdict,
              loaded |-> SESSIONS[@.client].index]]
    /\ UNCHANGED <<SESSIONS, request, groq, response, groq_calls>>

\* line 127, second half: write session["index"]
AnswerStore(h) ==
    /\ handlers[h].pc = "store"
    /\ LET c == handlers[h].client
       IN  SESSIONS' = Store(c, [SESSIONS[c] EXCEPT !.index = handlers[h].loaded + 1])
    /\ handlers' =
          [handlers EXCEPT ![h] =
             [pc |-> "test", client |-> @.client, body |-> @.body,
              idx |-> @.idx, verdict |-> @.verdict]]
    /\ UNCHANGED <<request, groq, response, groq_calls>>

\* line 128: done, from the index as it is now
AnswerTest(h) ==
    /\ handlers[h].pc = "test"
    /\ handlers' =
          [handlers EXCEPT ![h] =
             [pc |-> "reply", client |-> @.client, body |-> @.body,
              idx |-> @.idx, verdict |-> @.verdict,
              done |-> SESSIONS[@.client].index >= Len(SESSIONS[@.client].questions)]]
    /\ UNCHANGED <<SESSIONS, request, groq, response, groq_calls>>

\* lines 129-151: progress and the summary, from the session as it is now
AnswerReply(h) ==
    /\ handlers[h].pc = "reply"
    /\ request' = [op |-> "answer", client |-> handlers[h].client,
                   body |-> handlers[h].body]
    /\ LET session == SESSIONS[handlers[h].client]
       IN  response' =
             [status |-> 200, verdict |-> handlers[h].verdict,
              progress |-> session.index, done |-> handlers[h].done,
              summary |-> IF handlers[h].done THEN Summary(session.answers)
                          ELSE Null]
    /\ handlers' = [handlers EXCEPT ![h] = Idle]
    /\ UNCHANGED <<SESSIONS, groq, groq_calls>>

NextConcurrent ==
    \/ \E c \in OneClient : next_question(c) /\ UNCHANGED handlers
    \/ \E h \in Handlers, c \in OneClient, body \in RaceBodies :
          AnswerStart(h, c, body)
    \/ \E h \in Handlers : AnswerCall(h)
    \/ \E h \in Handlers : AnswerAppend(h)
    \/ \E h \in Handlers : AnswerLoad(h)
    \/ \E h \in Handlers : AnswerStore(h)
    \/ \E h \in Handlers : AnswerTest(h)
    \/ \E h \in Handlers : AnswerReply(h)

SpecConcurrent == Init /\ [][NextConcurrent]_vars

\* the client submits a non-empty answer
Submit(c) ==
    \E body \in Bodies :
        /\ body.json = "object"
        /\ body.answer.type = "string"
        /\ Strip(body.answer.text) # <<>>
        /\ handle_answer(c, body)
        /\ UNCHANGED handlers

\* one client that keeps submitting non-empty answers while that changes
\* anything; every classifier call returns (handle_answer is one step)
SpecLive == Spec /\ \A c \in OneClient : WF_vars(Submit(c))

(***************************************************************************)
(* Properties.                                                             *)
(***************************************************************************)
\* the session of the client whose request was handled last
Current == SESSIONS[request.client]

IsBlank(text) == \A i \in 1 .. Len(text) : text[i] = " "

\* C1: after every GET /next and POST /answer, whatever its outcome, every
\* session in SESSIONS has as many recorded answers as its index says.
C1_AnswersMatchIndex ==
    \A c \in DOMAIN SESSIONS : Len(SESSIONS[c].answers) = SESSIONS[c].index

\* a POST /answer has just ended in an exception on a complete session, while
\* another client is mid-session
C1_Witness ==
    /\ request.op = "answer"
    /\ response.status = 500
    /\ request.client \in DOMAIN SESSIONS
    /\ Current.index = Len(Current.questions)
    /\ \E other \in DOMAIN SESSIONS :
          /\ other # request.client
          /\ SESSIONS[other].index >= 1
          /\ SESSIONS[other].index < Len(SESSIONS[other].questions)

\* C2: every session satisfies 0 <= index <= len(questions), also after a
\* POST /answer sent to a completed session.
C2_IndexInRange ==
    \A c \in DOMAIN SESSIONS :
        /\ 0 <= SESSIONS[c].index
        /\ SESSIONS[c].index <= Len(SESSIONS[c].questions)

\* a well-formed, non-empty POST /answer has just been handled on a session
\* that was already complete
C2_Witness ==
    /\ request.op = "answer"
    /\ request.client \in DOMAIN SESSIONS
    /\ request.body.json = "object"
    /\ request.body.answer.type = "string"
    /\ ~IsBlank(request.body.answer.text)
    /\ groq.called = FALSE
    /\ Current.index = Len(Current.questions)

\* C3: a POST /answer from a client without a session returns 400 "Session
\* not started" for every body, creates and changes no session and does not
\* call the classifier.
C3_NoSessionRejected ==
    [][ (request'.op = "answer" /\ request'.client \notin DOMAIN SESSIONS)
        => /\ response'.status = 400
           /\ response'.error = "Session not started"
           /\ SESSIONS' = SESSIONS
           /\ groq'.called = FALSE
           /\ groq_calls' = groq_calls ]_vars

\* such a POST, with a body that is not JSON, while another client is mid-session
C3_Witness ==
    /\ request.op = "answer"
    /\ request.client \notin DOMAIN SESSIONS
    /\ request.body.json = "invalid"
    /\ response.status = 400
    /\ response.error = "Session not started"
    /\ \E other \in DOMAIN SESSIONS : SESSIONS[other].index >= 1

\* C4: with a session, a POST /answer whose answer is empty or only blanks
\* returns 400 "No answer provided!", leaves the session as it was and does
\* not call the classifier.
C4_BlankAnswerRejected ==
    [][ ( /\ request'.op = "answer"
          /\ request'.client \in DOMAIN SESSIONS
          /\ request'.body.json = "object"
          /\ request'.body.answer.type = "string"
          /\ IsBlank(request'.body.answer.text) )
        => /\ response'.status = 400
           /\ response'.error = "No answer provided!"
           /\ SESSIONS' = SESSIONS
           /\ groq'.called = FALSE
           /\ groq_calls' = groq_calls ]_vars

\* a whitespace-only answer has just been rejected on a session in progress
C4_Witness ==
    /\ request.op = "answer"
    /\ request.client \in DOMAIN SESSIONS
    /\ request.body.json = "object"
    /\ request.body.answer.type = "string"
    /\ request.body.answer.text = <<" ", " ">>
    /\ response.status = 400
    /\ response.error = "No answer provided!"
    /\ Current.index >= 1
    /\ Current.index < Len(Current.questions)

\* C5: every POST /answer (here: with a JSON object carrying a string answer)
\* ends with a 200 result or with one of the two 400 errors, in every session
\* state, a complete session included; none ends in an unhandled fault.
C5_NoUnhandledFault ==
    ( /\ request.op = "answer"
      /\ request.body.json = "object"
      /\ request.body.answer.type = "string" )
    => \/ response.status = 200
       \/ /\ response.status = 400
          /\ response.error \in {"Session not started", "No answer provided!"}

\* C6: the k-th non-empty POST /answer of a client with a session, k up to
\* SESSION_QUESTIONS, returns 200 with progress = k; before the last one done
\* is false and summary is null, at the last one done is true and summary is
\* not null.  (The k-th non-empty POST is the k-th that reaches the classifier.)
C6_ProgressCounts ==
    [][ ( /\ request'.op = "answer"
          /\ request'.client \in DOMAIN SESSIONS
          /\ request'.body.json = "object"
          /\ request'.body.answer.type = "string"
          /\ ~IsBlank(request'.body.answer.text)
          /\ groq_calls[request'.client] < SESSION_QUESTIONS )
        => LET k == groq_calls[request'.client] + 1
           IN  /\ response'.status = 200
               /\ response'.progress = k
               /\ k < SESSION_QUESTIONS
                    => response'.done = FALSE /\ response'.summary.null = TRUE
               /\ k = SESSION_QUESTIONS
                    => response'.done = TRUE /\ response'.summary.null = FALSE ]_vars

\* the completing submission has just been answered
C6_Witness ==
    /\ request.op = "answer"
    /\ response.status = 200
    /\ response.progress = SESSION_QUESTIONS
    /\ groq_calls[request.client] = SESSION_QUESTIONS
    /\ response.done = TRUE
    /\ response.summary.null = FALSE

\* the completing submission has just been answered with a summary
Completed ==
    /\ request.op = "answer"
    /\ response.status = 200
    /\ response.done = TRUE

\* C7: in the summary of the completing submission the three counts sum to
\* the number of recorded answers, SESSION_QUESTIONS, whatever verdict strings
\* the classifier returned.
C7_CountsSumToAnswers ==
    Completed =>
        LET counts == response.summary.counts
            sum == counts[Truthful] + counts[Suspicious] + counts[Lying]
        IN  /\ sum = Len(Current.answers)
            /\ sum = SESSION_QUESTIONS

\* C8: at completion honesty_percent is round(100 * truthful_count /
\* total_answered, 1) (here in tenths of a percent): truthful_count the number
\* of recorded verdicts containing the truthful label, total_answered the
\* number of recorded answers; so half of the verdicts truthful gives 50.0.
C8_HonestyOfAnswered ==
    Completed =>
        LET answers == Current.answers
            truthful_count ==
                Cardinality({ i \in 1 .. Len(answers) :
                                Contains(Truthful, answers[i].verdict) })
            total_answered == Len(answers)
        IN  /\ response.summary.honesty_percent
                 = RoundPercent(truthful_count, total_answered)
            /\ 2 * truthful_count = total_answered
                 => response.summary.honesty_percent = 500

\* C9: when the classifier call of a POST /answer fails, the request returns
\* 200 with a verdict that is one of the three labels, the answer is recorded
\* with that verdict and index advances by one.
C9_FallbackVerdict ==
    [][ ( /\ request'.op = "answer"
          /\ groq'.called
          /\ groq'.result \in Failures )
        => LET before == SESSIONS[request'.client]
               after == SESSIONS'[request'.client]
           IN  /\ response'.status = 200
               /\ response'.verdict \in {Truthful, Suspicious, Lying}
               /\ after.index = before.index + 1
               /\ Len(after.answers) = Len(before.answers) + 1
               /\ after.answers[Len(after.answers)].verdict = response'.verdict
               /\ after.answers[Len(after.answers)].question
                    = before.questions[before.index + 1] ]_vars

\* a POST /answer whose classifier call timed out has just been answered
C9_Witness ==
    /\ request.op = "answer"
    /\ groq.called
    /\ groq.result = "timeout"
    /\ response.status = 200
    /\ response.verdict = Lying
    /\ Current.index >= 1

\* C10: GET /next on a client that has a session leaves the store as it was,
\* and a GET /next that follows a GET /next of the same client returns the
\* same response.
C10_NextIsIdempotent ==
    [][ (request'.op = "next" /\ request'.client \in DOMAIN SESSIONS)
        => /\ SESSIONS' = SESSIONS
           /\ groq_calls' = groq_calls
           /\ request = request' => response' = response ]_vars

\* a GET /next has just been answered for a session with recorded answers
C10_Witness ==
    /\ request.op = "next"
    /\ Current.index >= 1
    /\ Len(Current.answers) >= 1
    /\ response.status = 200
    /\ response.done = FALSE
    /\ response.index = Current.index + 1

\* C11: GET /next returns done = true and no question exactly when the
\* session's index has reached len(questions); otherwise it returns done =
\* false with questions[index], the 1-based position index + 1 and total =
\* len(questions) = SESSION_QUESTIONS.
C11_NextResponseShape ==
    request.op = "next" =>
        /\ response.status = 200
        /\ IF Current.index >= Len(Current.questions)
           THEN /\ response.done = TRUE
                /\ DOMAIN response = {"status", "done"}
           ELSE /\ response.done = FALSE
                /\ response.question = Current.questions[Current.index + 1]
                /\ response.index = Current.index + 1
                /\ response.total = Len(Current.questions)
                /\ response.total = SESSION_QUESTIONS

\* a GET /next has just been answered on a complete session
C11_Witness ==
    /\ request.op = "next"
    /\ Current.index = Len(Current.questions)
    /\ response.done = TRUE

\* C12: once a session exists its questions never change, whatever request
\* is handled next and however it ends.
C12_QuestionsImmutable ==
    [][ \A c \in DOMAIN SESSIONS :
          /\ c \in DOMAIN SESSIONS'
          /\ SESSIONS'[c].questions = SESSIONS[c].questions ]_vars

\* a GET /next has just been answered for a session that was sampled in
\* another order than the pool's and has an answer recorded
C12_Witness ==
    /\ request.op = "next"
    /\ Current.questions[1] # 1
    /\ Current.index >= 1
    /\ response.done = FALSE

\* C13: a newly created session has SESSION_QUESTIONS questions, no two the
\* same, each from the pool, no answers and index 0.
C13_FreshSession ==
    [][ \A c \in DOMAIN SESSIONS' :
          c \notin DOMAIN SESSIONS =>
            LET fresh == SESSIONS'[c]
            IN  /\ Len(fresh.questions) = SESSION_QUESTIONS
                /\ \A i, j \in 1 .. Len(fresh.questions) :
                      i # j => fresh.questions[i] # fresh.questions[j]
                /\ \A i \in 1 .. Len(fresh.questions) :
                      fresh.questions[i] \in QUESTIONS
                /\ fresh.answers = <<>>
                /\ fresh.index = 0 ]_vars

\* a session has just been created, sampled in another order than the pool's
C13_Witness ==
    /\ request.op = "next"
    /\ Current.index = 0
    /\ Current.answers = <<>>
    /\ Current.questions[1] = SESSION_QUESTIONS
    /\ response.done = FALSE

\* C14: a session's index changes only by a successful POST /answer of its
\* client, which adds exactly 1; every other request leaves it as it was, so
\* it never decreases, and a session, once started, stays in the store.
C14_IndexAdvancesByOne ==
    [][ /\ \A c \in DOMAIN SESSIONS :
              /\ c \in DOMAIN SESSIONS'
              /\ \/ SESSIONS'[c].index = SESSIONS[c].index
                 \/ /\ SESSIONS'[c].index = SESSIONS[c].index + 1
                    /\ request'.op = "answer"
                    /\ request'.client = c
                    /\ response'.status = 200
        /\ (request'.op = "answer" /\ response'.status = 200)
              => /\ request'.client \in DOMAIN SESSIONS
                 /\ SESSIONS'[request'.client].index
                      = SESSIONS[request'.client].index + 1
        /\ (request'.op = "next" /\ request'.client \notin DOMAIN SESSIONS)
              => SESSIONS'[request'.client].index = 0 ]_vars

\* the submission that completes the session has just succeeded with a
\* verdict taken from the completion
C14_Witness ==
    /\ request.op = "answer"
    /\ response.status = 200
    /\ groq.called
    /\ groq.result = "ok"
    /\ Current.index = Len(Current.questions)

\* C18: every recorded answer lines up with its question: answers[i] was
\* given to questions[i], none answered twice and none skipped.
C18_AnswersLineUp ==
    \A c \in DOMAIN SESSIONS :
        \A i \in 1 .. Len(SESSIONS[c].answers) :
            /\ i <= Len(SESSIONS[c].questions)
            /\ SESSIONS[c].answers[i].question = SESSIONS[c].questions[i]

\* a complete session, sampled in another order than the pool's, with all its
\* answers recorded
C18_Witness ==
    /\ request.op = "answer"
    /\ response.status = 200
    /\ Len(Current.answers) = SESSION_QUESTIONS
    /\ Current.questions[1] # 1
    /\ Current.answers[1].question = Current.questions[1]

\* C19: a request of one client, however it ends, leaves every other
\* client's session as it was and removes no session from the store.
C19_OtherSessionsUntouched ==
    [][ \A b \in DOMAIN SESSIONS :
          /\ b \in DOMAIN SESSIONS'
          /\ b # request'.client => SESSIONS'[b] = SESSIONS[b] ]_vars

\* a client's submission has just succeeded while the other client's session
\* holds an answer and is not complete
C19_Witness ==
    /\ request.op = "answer"
    /\ response.status = 200
    /\ \E b \in DOMAIN SESSIONS :
          /\ b # request.client
          /\ SESSIONS[b].index >= 1
          /\ SESSIONS[b].index < Len(SESSIONS[b].questions)

\* the one client of Spec and SpecLive
Alone == CHOOSE c \in OneClient : TRUE

Started == Alone \in DOMAIN SESSIONS

Complete == Started /\ SESSIONS[Alone].index = Len(SESSIONS[Alone].questions)

\* C20: a started session whose client keeps submitting non-empty answers
\* eventually is complete; the step that completes it is the submission
\* answered with done = true, which is the SESSION_QUESTIONS-th successful
\* one; and from then on the session stays complete and every GET /next
\* returns done = true.
C20_EventuallyComplete ==
    /\ Started ~> Complete
    /\ [][ (Started /\ ~Complete /\ Complete')
           => /\ request'.op = "answer"
              /\ response'.status = 200
              /\ response'.done = TRUE
              /\ response'.progress = SESSION_QUESTIONS
              /\ groq_calls'[Alone] = SESSION_QUESTIONS ]_vars
    /\ [][Complete => Complete']_vars
    /\ []((Complete /\ request.op = "next") => response.done = TRUE)

\* the session is complete after SESSION_QUESTIONS classifier calls and a
\* GET /next has just returned done = true
C20_Witness ==
    /\ Complete
    /\ groq_calls[Alone] = SESSION_QUESTIONS
    /\ request.op = "next"
    /\ response.done = TRUE

\* the thread has appended its record and not yet replied
HasAppended(h) == handlers[h].pc \in {"load", "store", "test", "reply"}

\* the number of records of the session held for the question at 0-based i
RecordsFor(session, i) ==
    Cardinality({ k \in 1 .. Len(session.answers) :
                    session.answers[k].question = session.questions[i + 1] })

\* C15: two POST /answer threads of one client can record their answers
\* against the same question: whenever both have appended after reading the
\* same index i, answers holds two records for questions[i]; and the state
\* with two records for questions[i] and none for questions[i+1] is reached.
C15_SameQuestionTwice ==
    \A h1, h2 \in Handlers :
        ( /\ h1 # h2
          /\ HasAppended(h1)
          /\ HasAppended(h2)
          /\ handlers[h1].client = handlers[h2].client
          /\ handlers[h1].idx = handlers[h2].idx )
        => RecordsFor(SESSIONS[handlers[h1].client], handlers[h1].idx) >= 2

\* both threads have replied; the session holds exactly two records, both for
\* questions[0], and none for questions[1]
C15_Witness ==
    /\ \A h \in Handlers : handlers[h].pc = "idle"
    /\ Started
    /\ Len(SESSIONS[Alone].answers) = 2
    /\ RecordsFor(SESSIONS[Alone], 0) = 2
    /\ RecordsFor(SESSIONS[Alone], 1) = 0

\* C16: with several POST /answer threads of one client interleaving between
\* the read of index (116) and its increment (127), index never exceeds
\* len(questions).
C16_IndexBoundedConcurrently ==
    \A c \in DOMAIN SESSIONS : SESSIONS[c].index <= Len(SESSIONS[c].questions)

\* C17: with several POST /answer threads of one client and the increment a
\* separate read and write, len(answers) = index whenever no thread is in
\* flight.
C17_NoLostIncrement ==
    (\A h \in Handlers : handlers[h].pc = "idle")
    => \A c \in DOMAIN SESSIONS : Len(SESSIONS[c].answers) = SESSIONS[c].index

====
